---------------------------- MODULE Spec2Model ----------------------------
(***************************************************************************)
(* A model of leaxoy/localcache (src/localcache.go, the version with       *)
(* CacheConfig, Add and the background expireLoop, lines 791-1229).        *)
(*                                                                         *)
(* The state is the LocalCache struct (data, mu, expiration, evicted,      *)
(* stats), the wall clock, and for every goroutine its position inside     *)
(* the method it is running together with that method's local variables.   *)
(* Methods that take mu.Lock() are two steps (acquire, body + release);    *)
(* the methods that take mu.RLock() and nevertheless write the map and the *)
(* counters are modelled statement by statement, since other readers can   *)
(* interleave with them.                                                   *)
(***************************************************************************)
EXTENDS Integers, Sequences, FiniteSets, TLC

\* ------------------------------------------------------------------ bounds
NumThreads == 2   \* caller goroutines
MaxDur     == 1   \* longest TTL, in clock units
MaxTime    == 3   \* the clock runs from 1 to MaxTime
MaxCalls   == 3   \* calls issued in one run
MaxBatch   == 2   \* longest key list given to GetKeysEntry
LiveCalls  == 2   \* calls issued in one run of the fair specification

Threads   == 1..NumThreads
Sweeper   == 0                      \* the goroutine started by NewLocalCache
Procs     == Threads \cup {Sweeper}
NoOne     == -1                     \* mu is not write-locked
Keys      == {"a", "b"}
Values    == {"x", "y"}
Durations == -1..MaxDur             \* a time.Duration argument; <= 0 is "no expiry"
Nil       == "nil"                  \* the nil interface{} value
NoKey     == "-"
Funcs     == {"f", "g"}             \* func(Key, Entry) values given to SetEvictedFunc

VARIABLES
    data,        \* c.data: map[Key]Entry, a function on the keys present
    stats,       \* *c.stats: the CacheStat struct c.stats points to
    evicted,     \* c.evicted: Nil or the function registered
    expiration,  \* c.expiration (config.Expiration)
    expireTick,  \* config.ExpireTick, the argument of expireLoop
    writer,      \* the goroutine holding mu.Lock(), or NoOne
    readers,     \* the goroutines holding mu.RLock()
    now,         \* time.Now().UnixNano()
    pc,          \* position of every goroutine
    loc,         \* local variables of the call a goroutine is in
    snap,        \* the *CacheStat a caller holds from its last Stats()
    crashed,     \* the runtime has thrown "concurrent map read and map write"
    calls,       \* number of calls issued so far (SetEvictedFunc not counted)
    ev,          \* history: what the step just taken returned to its caller
    cbCount,     \* history: callback invocations for the entry last stored under a key
    rmCount,     \* history: removals from the table, with a callback registered, of that entry
    hist         \* history: the last caller write to a key and the reads since

vars == <<data, stats, evicted, expiration, expireTick, writer, readers, now,
          pc, loc, snap, crashed, calls, ev, cbCount, rmCount, hist>>

\* ------------------------------------------------------------- data types
\* type Entry struct { value interface{}; expire int64 }
Entry(v, e) == [value |-> v, expire |-> e]
NoEntry == Entry(Nil, 0)

\* type CacheStat struct { Entries, Expired, Hits, Misses, Total int64 }; &CacheStat{}
CacheStat == [Entries |-> 0, Expired |-> 0, Hits |-> 0, Misses |-> 0, Total |-> 0]

\* type ResponseEntry struct { Valid bool; Value interface{} }
ResponseEntry(valid, v) == [Valid |-> valid, Value |-> v]
nilResponse == ResponseEntry(FALSE, Nil)

\* ExpireDuration = time.Duration(-1)
ExpireDuration == -1

\* IsExpired with a grace period of one clock unit
IsExpired_Late(entry, t) == entry.expire # 0 /\ entry.expire + 1 < t

\* func (entry *Entry) IsExpired() bool, with time.Now().UnixNano() = t
IsExpired(entry, t) == entry.expire # 0 /\ entry.expire < t

\* an expiry instant computed for a zero duration too
ExpireAt_Zero(duration, t) == IF duration >= 0 THEN t + duration ELSE 0

\* var e int64; if duration > 0 { e = time.Now().Add(duration).UnixNano() }
ExpireAt(duration, t) == IF duration > 0 THEN t + duration ELSE 0

\* a search that finds nothing
search_Miss(d, key, t) == [entry |-> NoEntry, ok |-> FALSE]

\* a search that does not look at the expiry of what it finds
search_Stale(d, key, t) ==
    IF key \in DOMAIN d
    THEN [entry |-> d[key], ok |-> TRUE]
    ELSE [entry |-> NoEntry, ok |-> FALSE]

\* func (c *LocalCache) search(key Key) (entry Entry, ok bool)
search(d, key, t) ==
    IF key \in DOMAIN d /\ ~IsExpired(d[key], t)
    THEN [entry |-> d[key], ok |-> TRUE]
    ELSE [entry |-> NoEntry, ok |-> FALSE]

\* a store that keeps what the key already holds
MapStore_Keep(d, key, entry) ==
    [k \in DOMAIN d \cup {key} |-> IF k \in DOMAIN d THEN d[k] ELSE entry]

\* c.data[key] = entry
MapStore(d, key, entry) == [k \in DOMAIN d \cup {key} |-> IF k = key THEN entry ELSE d[k]]

\* delete(c.data, key)
MapDelete(d, key) == [k \in DOMAIN d \ {key} |-> d[k]]

\* make(map[Key]Entry)
EmptyMap == [k \in {} |-> NoEntry]

\* c.stats.<field> += n
StatAdd(s, field, n) == [s EXCEPT ![field] = @ + n]

\* ------------------------------------------------------ sync.RWMutex (c.mu)
\* a mutex that excludes nobody
CanLock_Always == TRUE

\* c.mu.Lock() returns once no goroutine holds the lock in either mode
CanLock == writer = NoOne /\ readers = {}
\* c.mu.RLock() returns once no goroutine holds the lock in write mode
CanRLock == writer = NoOne

\* -------------------------------------------------- history (not program state)
Inserts == {"Set", "Add"}
NoHist == [by |-> "none", v |-> Nil, exp |-> 0, aged |-> FALSE,
           looked |-> FALSE, found |-> FALSE, swept |-> FALSE]
\* what the table holds under a key at time t
Holds(d, key, t) ==
    IF key \notin DOMAIN d THEN "absent"
    ELSE IF d[key].expire # 0 /\ d[key].expire < t THEN "dead" ELSE "live"
\* the history of a key after op inserted value v with TTL dur at time t
Inserted(op, v, dur, t) ==
    [NoHist EXCEPT !.by = op, !.v = v, !.exp = IF dur > 0 THEN t + dur ELSE 0]
\* the clock ticks: an entry inserted without expiry has been stored for a while
Aged(h) == IF h.by \in Inserts /\ h.exp = 0 THEN [h EXCEPT !.aged = TRUE] ELSE h
\* the TTL of the entry a caller last inserted under the key has run out at time t
Elapsed(h, t) == h.by \in Inserts /\ h.exp # 0 /\ t > h.exp
\* the history of a key after Expire(key) returned
Expired(h) == [NoHist EXCEPT !.by = "Expire"]
\* a Get-family lookup of the key at time t
Looked(h, t) == IF Elapsed(h, t) THEN [h EXCEPT !.looked = TRUE] ELSE h
\* "first": the first lookup after the TTL ran out; "next": one made after a
\* lookup that found the TTL run out has returned
Phase(h, t) ==
    IF ~Elapsed(h, t) THEN "none"
    ELSE IF ~h.looked THEN "first"
    ELSE IF h.found THEN "next" ELSE "overlap"
\* a Get-family call that looked the key up in phase ph returns
Found(h, ph) == IF ph = "none" THEN h ELSE [h EXCEPT !.found = TRUE]
\* GetKeysEntry visits the key at time t
Visited(h, t) == IF Elapsed(h, t) THEN [h EXCEPT !.looked = TRUE, !.found = TRUE] ELSE h

\* --------------------------------------------------------- goroutine state
\* the table, the counters and the callback counts as a call found them
NoPre == [data |-> EmptyMap, stats |-> CacheStat, cb |-> [k \in Keys |-> 0]]
NoLoc == [op |-> "none", key |-> NoKey, value |-> Nil, duration |-> 0,
          e |-> NoEntry, ok |-> FALSE, expire |-> 0, tmp |-> 0, phase |-> "none",
          pre |-> NoPre, held |-> "absent"]
NoEv == [op |-> "none", by |-> NoOne, key |-> NoKey, err |-> "nil", v |-> Nil,
         valid |-> FALSE, expire |-> 0, phase |-> "none",
         held |-> "absent", m |-> <<>>, stats |-> CacheStat, pre |-> NoPre,
         had |-> Nil, typed |-> <<>>, late |-> {}, keys |-> <<>>, fired |-> <<>>]
\* the table, the counters and the callback counts as they are now
Pre == [data |-> data, stats |-> stats, cb |-> cbCount]

\* the keys among ks whose entry the callback fn, called while the table is d,
\* no longer finds in the table
Unseen(d, ks, fn) == IF fn = Nil THEN {} ELSE {k \in ks : k \notin DOMAIN d}
\* goroutine t returns (v, err) from op(key)
Result(t, op, key, err, v) ==
    [NoEv EXCEPT !.op = op, !.by = t, !.key = key, !.err = err, !.v = v]
\* the *CacheStat a caller holds: none, c.stats itself, or a struct Reset replaced
NoSnap == [ref |-> "nil", val |-> CacheStat]

Idle(t) == pc[t] = "idle" /\ ~crashed
At(t, label) == pc[t] = label /\ ~crashed

\* Goroutine t enters a method whose first statement is c.mu.Lock().  Which
\* method, and with which arguments, is resolved by the body step that follows:
\* until then the goroutine has touched nothing but the mutex.
Lock(t) ==
    /\ Idle(t)
    /\ CanLock
    /\ writer' = t
    /\ pc' = [pc EXCEPT ![t] = "locked"]
    /\ ev' = NoEv
    /\ UNCHANGED <<data, stats, evicted, expiration, expireTick, readers, now, loc,
                   snap, crashed, calls, cbCount, rmCount, hist>>

\* Goroutine t enters GetWithExpire or GetEntry: c.mu.RLock()
RLock(t, budget) ==
    /\ Idle(t)
    /\ calls < budget
    /\ CanRLock
    /\ readers' = readers \cup {t}
    /\ pc' = [pc EXCEPT ![t] = "rlocked"]
    /\ calls' = calls + 1
    /\ ev' = NoEv
    /\ UNCHANGED <<data, stats, evicted, expiration, expireTick, writer, now, loc,
                   snap, crashed, cbCount, rmCount, hist>>

\* the body of a write-locked method runs: the call is counted
Locked(t, budget) ==
    /\ At(t, "locked")
    /\ calls < budget
    /\ calls' = calls + 1

\* c.mu.Unlock(); return r
UnlockReturn(t, r) ==
    /\ writer' = NoOne
    /\ pc' = [pc EXCEPT ![t] = "idle"]
    /\ loc' = [loc EXCEPT ![t] = NoLoc]
    /\ ev' = r

\* ------------------------------------------------------------ construction
\* NewLocalCache(config): an empty table, zero counters, no callback; the
\* sweeper goroutine is started with config.ExpireTick.
Init ==
    /\ data = EmptyMap
    /\ stats = CacheStat
    /\ evicted = Nil
    /\ expiration = MaxDur
    /\ expireTick = 1
    /\ writer = NoOne
    /\ readers = {}
    /\ now = 1
    /\ pc = [p \in Procs |-> "idle"]
    /\ loc = [t \in Threads |-> NoLoc]
    /\ snap = [t \in Threads |-> NoSnap]
    /\ crashed = FALSE
    /\ calls = 0
    /\ ev = NoEv
    /\ cbCount = [k \in Keys |-> 0]
    /\ rmCount = [k \in Keys |-> 0]
    /\ hist = [k \in Keys |-> NoHist]

\* ----------------------------------------------------------------- the clock
Tick ==
    /\ ~crashed
    /\ now < MaxTime
    /\ now' = now + 1
    /\ hist' = [k \in Keys |-> Aged(hist[k])]
    /\ ev' = NoEv
    /\ UNCHANGED <<data, stats, evicted, expiration, expireTick, writer, readers,
                   pc, loc, snap, crashed, calls, cbCount, rmCount>>

\* ----------------------------------------------------------- SetEvictedFunc
\* the functions a caller passes: "f" to an engine without callback, and to an
\* engine that has one a function other than the one registered
NewFuncs == IF evicted = Nil THEN {"f"} ELSE Funcs \ {evicted}

\* a registration that stores fn before it looks at c.evicted
SetEvictedFunc_Overwrite(t, fn) ==
    /\ At(t, "locked")
    /\ evicted' = fn
    /\ UnlockReturn(t, [Result(t, "SetEvictedFunc", NoKey,
                               IF evicted # Nil THEN "panic: ErrDuplicateEvictedFunc"
                               ELSE "nil", fn) EXCEPT !.had = evicted])
    /\ UNCHANGED <<data, stats, expiration, expireTick, readers, now, snap, crashed,
                   calls, cbCount, rmCount, hist>>

\* func (c *LocalCache) SetEvictedFunc(fn): c.mu.Lock(); defer c.mu.Unlock()
\* if c.evicted != nil { panic(ErrDuplicateEvictedFunc) }; c.evicted = fn
\* The deferred Unlock runs while the panic unwinds; the caller recovers.
SetEvictedFunc(t, fn) ==
    /\ At(t, "locked")
    /\ evicted' = IF evicted # Nil THEN evicted ELSE fn
    /\ UnlockReturn(t, [Result(t, "SetEvictedFunc", NoKey,
                               IF evicted # Nil THEN "panic: ErrDuplicateEvictedFunc"
                               ELSE "nil", fn) EXCEPT !.had = evicted])
    /\ UNCHANGED <<data, stats, expiration, expireTick, readers, now, snap, crashed,
                   calls, cbCount, rmCount, hist>>

\* -------------------------------------------------------- SetWithExpire, Set
\* func (c *LocalCache) SetWithExpire(key, value, duration), after c.mu.Lock():
\* c.data[key] = Entry{value, e}; c.stats.Entries++; c.stats.Total++; c.mu.Unlock()
\* a SetWithExpire that counts an entry only when the key is new
SetWithExpire_Fresh(t, key, value, duration, budget) ==
    /\ Locked(t, budget)
    /\ data' = MapStore(data, key, Entry(value, ExpireAt(duration, now)))
    /\ stats' = IF key \in DOMAIN data THEN stats
                ELSE StatAdd(StatAdd(stats, "Entries", 1), "Total", 1)
    /\ hist' = [hist EXCEPT ![key] = Inserted("Set", value, duration, now)]
    /\ cbCount' = [cbCount EXCEPT ![key] = 0]
    /\ rmCount' = [rmCount EXCEPT ![key] = 0]
    /\ UnlockReturn(t, [Result(t, "Set", key, "nil", Nil) EXCEPT
                           !.held = Holds(data, key, now), !.pre = Pre,
                           !.fired = <<>>])
    /\ UNCHANGED <<evicted, expiration, expireTick, readers, now, snap, crashed>>

\* a SetWithExpire that treats the replacement of a live entry as an eviction
SetWithExpire_Evict(t, key, value, duration, budget) ==
    /\ Locked(t, budget)
    /\ data' = MapStore(data, key, Entry(value, ExpireAt(duration, now)))
    /\ stats' = StatAdd(StatAdd(stats, "Entries", 1), "Total", 1)
    /\ hist' = [hist EXCEPT ![key] = Inserted("Set", value, duration, now)]
    /\ cbCount' = [cbCount EXCEPT ![key] = 0]
    /\ rmCount' = [rmCount EXCEPT ![key] = 0]
    /\ UnlockReturn(t, [Result(t, "Set", key, "nil", Nil) EXCEPT
                           !.held = Holds(data, key, now), !.pre = Pre,
                           !.fired = IF key \in DOMAIN data /\ evicted # Nil
                                     THEN <<key>> ELSE <<>>])
    /\ UNCHANGED <<evicted, expiration, expireTick, readers, now, snap, crashed>>

SetWithExpire(t, key, value, duration, budget) ==
    /\ Locked(t, budget)
    /\ data' = MapStore(data, key, Entry(value, ExpireAt(duration, now)))
    /\ stats' = StatAdd(StatAdd(stats, "Entries", 1), "Total", 1)
    /\ hist' = [hist EXCEPT ![key] = Inserted("Set", value, duration, now)]
    /\ cbCount' = [cbCount EXCEPT ![key] = 0]
    /\ rmCount' = [rmCount EXCEPT ![key] = 0]
    /\ UnlockReturn(t, [Result(t, "Set", key, "nil", Nil) EXCEPT
                           !.held = Holds(data, key, now), !.pre = Pre,
                           !.fired = <<>>])   \* no c.evicted(...) in the body
    /\ UNCHANGED <<evicted, expiration, expireTick, readers, now, snap, crashed>>

\* func (c *LocalCache) Set(key, value) { c.SetWithExpire(key, value, c.expiration) }
Set(t, key, value, budget) == SetWithExpire(t, key, value, expiration, budget)

\* -------------------------------------------------------- AddWithExpire, Add
\* func (c *LocalCache) AddWithExpire(key, value, duration) error, after c.mu.Lock():
\* _, ok := c.search(key); if ok { c.mu.Unlock(); return ErrDuplicateKey }
AddWithExpire(t, key, value, duration, budget) ==
    /\ Locked(t, budget)
    /\ IF search(data, key, now).ok
       THEN /\ UnlockReturn(t, [Result(t, "Add", key, "ErrDuplicateKey", Nil) EXCEPT
                                   !.held = Holds(data, key, now),
                                   !.pre = [data |-> data, stats |-> stats,
                                            cb |-> cbCount]])
            /\ UNCHANGED <<data, stats, evicted, expiration, expireTick, readers,
                           now, snap, crashed, cbCount, rmCount, hist>>
       ELSE /\ pc' = [pc EXCEPT ![t] = "add_insert"]
            /\ loc' = [loc EXCEPT ![t] = [NoLoc EXCEPT !.op = "Add", !.key = key,
                                             !.value = value, !.duration = duration]]
            /\ ev' = NoEv
            /\ UNCHANGED <<data, stats, evicted, expiration, expireTick, writer,
                           readers, now, snap, crashed, cbCount, rmCount, hist>>

\* func (c *LocalCache) Add(key, value) error { return c.AddWithExpire(key, value, c.expiration) }
Add(t, key, value, budget) == AddWithExpire(t, key, value, expiration, budget)

\* c.data[key] = Entry{value, e}; c.stats.Entries++; c.stats.Total++; c.mu.Unlock(); return nil
AddInsert(t) ==
    /\ At(t, "add_insert")
    /\ LET l == loc[t]
       IN /\ data' = MapStore(data, l.key, Entry(l.value, ExpireAt(l.duration, now)))
          /\ stats' = StatAdd(StatAdd(stats, "Entries", 1), "Total", 1)
          /\ hist' = [hist EXCEPT ![l.key] = Inserted("Add", l.value, l.duration, now)]
          /\ cbCount' = [cbCount EXCEPT ![l.key] = 0]
          /\ rmCount' = [rmCount EXCEPT ![l.key] = 0]
          /\ UnlockReturn(t, [Result(t, "Add", l.key, "nil", Nil) EXCEPT
                                 !.held = Holds(data, l.key, now), !.pre = Pre])
          /\ UNCHANGED <<evicted, expiration, expireTick, readers, now, snap,
                         crashed, calls>>

\* ------------------------------------------- Get, GetWithExpire, GetEntry
\* a step of a getter that changes only its own position and locals
Local(t, label, l) ==
    /\ pc' = [pc EXCEPT ![t] = label]
    /\ loc' = [loc EXCEPT ![t] = l]
    /\ ev' = NoEv
    /\ UNCHANGED <<data, stats, evicted, expiration, expireTick, writer, readers,
                   now, snap, crashed, calls, cbCount, rmCount>>

\* if e, ok := c.data[key]; ok { now := time.Now(); if !e.IsExpired() {...
\* the first statements of GetWithExpire and of GetEntry after c.mu.RLock()
Lookup(t, op, key) ==
    /\ At(t, "rlocked")
    /\ LET ok == key \in DOMAIN data
           e == IF ok THEN data[key] ELSE NoEntry
       IN /\ hist' = [hist EXCEPT ![key] = Looked(@, now)]
          /\ Local(t, IF ~ok THEN "miss_load"
                      ELSE IF ~IsExpired(e, now) THEN "hit_load" ELSE "callback",
                   [NoLoc EXCEPT !.op = op, !.key = key, !.e = e, !.ok = ok,
                                 !.expire = IF op = "GetWithExpire" /\ ok
                                            THEN e.expire - now ELSE 0,
                                 !.phase = Phase(hist[key], now),
                                 !.pre = [data |-> data, stats |-> stats,
                                          cb |-> cbCount],
                                 !.held = Holds(data, key, now)])

\* func (c *LocalCache) GetWithExpire(key) (v, expire, err)
GetWithExpire(t, key) == Lookup(t, "GetWithExpire", key)
\* func (c *LocalCache) GetEntry(key) (v *ResponseEntry, err error)
GetEntry(t, key) == Lookup(t, "GetEntry", key)

\* func (c *LocalCache) Get(key) (v, err) { v, _, err = c.GetWithExpire(key); return }
\* applied to what GetWithExpire returned
Get(r) == [v |-> r.v, err |-> r.err]

\* c.stats.<field>++ is a load of the counter ...
Load(t, from, field, to) ==
    /\ At(t, from)
    /\ Local(t, to, [loc[t] EXCEPT !.tmp = stats[field]])
    /\ UNCHANGED hist

\* ... followed by a store of the value loaded, plus n
Store(t, from, field, n, to) ==
    /\ At(t, from)
    /\ stats' = [stats EXCEPT ![field] = loc[t].tmp + n]
    /\ pc' = [pc EXCEPT ![t] = to]
    /\ loc' = [loc EXCEPT ![t].tmp = 0]
    /\ ev' = NoEv
    /\ UNCHANGED <<data, evicted, expiration, expireTick, writer, readers, now,
                   snap, crashed, calls, cbCount, rmCount, hist>>

\* ------------------------------------------------------- typed accessors
\* the dynamic types a stored interface{} value may have (byte is uint8, rune
\* is int32; "struct" stands for every type no accessor has a case for)
GoTypes == {"bool", "int", "int8", "int16", "int32", "int64", "uint", "uint8",
            "uint16", "uint32", "uint64", "float32", "float64", "string",
            "[]byte", "struct"}
Accessors == {"GetBool", "GetInt64", "GetUint64", "GetFloat64", "GetString",
              "GetByte", "GetRune"}

\* the case clauses of the accessor's switch e.(type)
Cases(a) ==
    CASE a = "GetBool" -> {"bool"}
      [] a = "GetInt64" -> {"int", "int8", "int16", "int32", "int64"}
      [] a = "GetUint64" -> {"uint", "uint8", "uint16", "uint32", "uint64"}
      [] a = "GetFloat64" -> {"float32", "float64"}
      [] a = "GetString" -> {"string", "[]byte"}
      [] a = "GetByte" -> {"uint8", "int8"}
      [] a = "GetRune" -> {"int32"}

\* the type the body of case ty asserts: e.(ty), but under case float32 of
\* GetFloat64 it is e.(float64)
Asserted(a, ty) == IF a = "GetFloat64" /\ ty = "float32" THEN "float64" ELSE ty

\* the declared result type of the accessor
Target(a) ==
    CASE a = "GetBool" -> "bool"
      [] a = "GetInt64" -> "int64"
      [] a = "GetUint64" -> "uint64"
      [] a = "GetFloat64" -> "float64"
      [] a = "GetString" -> "string"
      [] a = "GetByte" -> "uint8"
      [] a = "GetRune" -> "int32"

\* the conversion Target(a)(e.(ty)) of the stored value v, and the zero value
Converted(a, ty, v) == [type |-> Target(a), from |-> ty, of |-> v]
Zero(a) == [type |-> Target(a), from |-> "zero", of |-> Nil]

\* an accessor that switches on the type before it looks at err
Typed_SwitchFirst(a, r, ty) ==
    IF r.v = Nil \/ ty \notin Cases(a) THEN [v |-> Zero(a), err |-> "ErrTypeMismatch"]
    ELSE IF r.err # "nil" THEN [v |-> Zero(a), err |-> r.err]
    ELSE [v |-> Converted(a, ty, r.v), err |-> "nil"]

\* func (c *LocalCache) GetBool/GetInt64/.../GetRune(key), given r = c.Get(key)
\* and the dynamic type ty of the value:  if err != nil { return zero, err };
\* switch e.(type) { case ...: return T(e.(...)), nil }; return zero, ErrTypeMismatch.
\* A type assertion to another type than the dynamic one panics.
Typed(a, r, ty) ==
    IF r.err # "nil" THEN [v |-> Zero(a), err |-> r.err]
    ELSE IF ty \notin Cases(a) THEN [v |-> Zero(a), err |-> "ErrTypeMismatch"]
    ELSE IF Asserted(a, ty) # ty
         THEN [v |-> Zero(a), err |-> "panic: interface conversion"]
    ELSE [v |-> Converted(a, ty, r.v), err |-> "nil"]

\* what every typed accessor returns on top of the Get result r, for every
\* dynamic type of the stored value
TypedAll(r) == [a \in Accessors |-> [ty \in GoTypes |-> Typed(a, r, ty)]]

\* what a getter hands back: (e.value, e.expire - now, nil) or (nil,
\* ExpireDuration, err) from GetWithExpire, (&ResponseEntry{true, e.value}, nil)
\* or (nilResponse, err) from GetEntry
GetResult(t, l, err) ==
    LET hit == err = "nil"
        r == Result(t, l.op, l.key, err, IF hit THEN l.e.value ELSE Nil)
    IN [r EXCEPT !.valid = hit,
                 !.expire = IF l.op # "GetWithExpire" THEN 0
                            ELSE IF hit THEN l.expire ELSE ExpireDuration,
                 !.phase = l.phase, !.pre = l.pre, !.held = l.held,
                 !.typed = IF l.op = "GetWithExpire" THEN TypedAll(Get(r)) ELSE <<>>]

\* the last counter is stored: c.mu.RUnlock(); return
StoreReturn(t, from, field, err) ==
    /\ At(t, from)
    /\ stats' = [stats EXCEPT ![field] = loc[t].tmp + 1]
    /\ readers' = readers \ {t}
    /\ hist' = [hist EXCEPT ![loc[t].key] = Found(@, loc[t].phase)]
    /\ pc' = [pc EXCEPT ![t] = "idle"]
    /\ loc' = [loc EXCEPT ![t] = NoLoc]
    /\ ev' = GetResult(t, loc[t], err)
    /\ UNCHANGED <<data, evicted, expiration, expireTick, writer, now, snap,
                   crashed, calls, cbCount, rmCount>>

\* c.stats.Hits++; c.mu.RUnlock(); return e.value, time.Duration(e.expire - now.UnixNano()), nil
HitLoad(t) == Load(t, "hit_load", "Hits", "hit_store")
\* a hit that renews the life of the entry it returns (sliding expiration)
HitStore_Touch(t) ==
    /\ At(t, "hit_store")
    /\ stats' = [stats EXCEPT !.Hits = loc[t].tmp + 1]
    /\ data' = IF loc[t].key \in DOMAIN data /\ data[loc[t].key].expire # 0
               THEN MapStore(data, loc[t].key,
                             Entry(data[loc[t].key].value, ExpireAt(expiration, now)))
               ELSE data
    /\ readers' = readers \ {t}
    /\ hist' = [hist EXCEPT ![loc[t].key] = Found(@, loc[t].phase)]
    /\ pc' = [pc EXCEPT ![t] = "idle"]
    /\ loc' = [loc EXCEPT ![t] = NoLoc]
    /\ ev' = GetResult(t, loc[t], "nil")
    /\ UNCHANGED <<evicted, expiration, expireTick, writer, now, snap,
                   crashed, calls, cbCount, rmCount>>

HitStore(t) == StoreReturn(t, "hit_store", "Hits", "nil")

\* if c.evicted != nil { c.evicted(key, e) }
Callback(t) ==
    /\ At(t, "callback")
    /\ cbCount' = [cbCount EXCEPT ![loc[t].key] = IF evicted # Nil THEN @ + 1 ELSE @]
    /\ pc' = [pc EXCEPT ![t] = "delete"]
    /\ ev' = [NoEv EXCEPT !.op = "callback", !.by = t, !.key = loc[t].key,
                          !.late = Unseen(data, {loc[t].key}, evicted)]
    /\ UNCHANGED <<data, stats, evicted, expiration, expireTick, writer, readers,
                   now, loc, snap, crashed, calls, rmCount, hist>>

\* delete(c.data, key)
Delete(t) ==
    /\ At(t, "delete")
    /\ data' = MapDelete(data, loc[t].key)
    /\ rmCount' = [rmCount EXCEPT ![loc[t].key] =
                      IF evicted # Nil /\ loc[t].key \in DOMAIN data THEN @ + 1 ELSE @]
    /\ pc' = [pc EXCEPT ![t] = "entries_load"]
    /\ ev' = NoEv
    /\ UNCHANGED <<stats, evicted, expiration, expireTick, writer, readers, now,
                   loc, snap, crashed, calls, cbCount, hist>>

\* c.stats.Entries--; c.stats.Expired++; c.stats.Misses++
EntriesLoad(t) == Load(t, "entries_load", "Entries", "entries_store")
EntriesStore(t) == Store(t, "entries_store", "Entries", -1, "expired_load")
ExpiredLoad(t) == Load(t, "expired_load", "Expired", "expired_store")
ExpiredStore(t) == Store(t, "expired_store", "Expired", 1, "miss_load")
MissLoad(t) == Load(t, "miss_load", "Misses", "miss_store")
\* c.mu.RUnlock(); return nil, ExpireDuration, ErrExpiredKey  (or ErrNoSuchKey)
MissStore(t) ==
    StoreReturn(t, "miss_store", "Misses",
                IF loc[t].ok THEN "ErrExpiredKey" ELSE "ErrNoSuchKey")

\* Two goroutines inside the read-locked section, one about to delete from the
\* map while the other is about to read or write it: an unsynchronised map
\* access, for which the Go runtime may throw and end the process.
MapRace ==
    /\ ~crashed
    /\ \E t \in Threads, u \in Threads :
          t # u /\ pc[t] = "delete" /\ pc[u] \in {"rlocked", "delete"}
    /\ crashed' = TRUE
    /\ ev' = NoEv
    /\ UNCHANGED <<data, stats, evicted, expiration, expireTick, writer, readers,
                   now, pc, loc, snap, calls, cbCount, rmCount, hist>>

\* ------------------------------------------------------------ GetKeysEntry
\* for _, key := range keys { ... }: the loop of GetKeysEntry over the keys
\* ks, from the state st = [data, stats, v, cb, rm, hist]
\* one pass of the loop body, for key, with the key already answered skipped
Visit_Dedup(st, key, cb, t) ==
    LET ok == key \in DOMAIN st.data
        e == IF ok THEN st.data[key] ELSE NoEntry
        h2 == [st.hist EXCEPT ![key] = Visited(@, t)]
    IN IF key \in DOMAIN st.v THEN st
       ELSE IF ok /\ ~IsExpired(e, t)
       THEN [st EXCEPT !.stats = StatAdd(@, "Hits", 1),
                       !.v = MapStore(@, key, ResponseEntry(TRUE, e.value)),
                       !.hist = h2]
       ELSE IF ok
       THEN [st EXCEPT !.stats = StatAdd(StatAdd(StatAdd(@, "Entries", -1),
                                                 "Expired", 1), "Misses", 1),
                       !.data = MapDelete(@, key),
                       !.v = MapStore(@, key, nilResponse),
                       !.cb = [@ EXCEPT ![key] = IF cb THEN @ + 1 ELSE @],
                       !.fired = IF cb THEN Append(@, key) ELSE @,
                       !.late = @ \cup Unseen(st.data, {key}, IF cb THEN "f" ELSE Nil),
                       !.rm = [@ EXCEPT ![key] = IF cb THEN @ + 1 ELSE @],
                       !.hist = h2]
       ELSE [st EXCEPT !.stats = StatAdd(@, "Misses", 1),
                       !.v = MapStore(@, key, nilResponse),
                       !.hist = h2]

\* one pass of the body of the loop of GetKeysEntry, for key, from the state
\* st = [data, stats, v, cb, rm, hist, late, fired] at time t
Visit(st, key, cb, t) ==
    LET ok == key \in DOMAIN st.data
        e == IF ok THEN st.data[key] ELSE NoEntry
        h2 == [st.hist EXCEPT ![key] = Visited(@, t)]
    IN IF ok /\ ~IsExpired(e, t)
       THEN \* c.stats.Hits++; v[key] = &ResponseEntry{Valid: true, Value: e.value}
            [st EXCEPT !.stats = StatAdd(@, "Hits", 1),
                       !.v = MapStore(@, key, ResponseEntry(TRUE, e.value)),
                       !.hist = h2]
       ELSE IF ok
       THEN \* c.stats.Entries--; c.stats.Expired++; c.evicted(key, e);
            \* delete(c.data, key); v[key] = nilResponse; c.stats.Misses++
            [st EXCEPT !.stats = StatAdd(StatAdd(StatAdd(@, "Entries", -1),
                                                 "Expired", 1), "Misses", 1),
                       !.data = MapDelete(@, key),
                       !.v = MapStore(@, key, nilResponse),
                       !.cb = [@ EXCEPT ![key] = IF cb THEN @ + 1 ELSE @],
                       !.fired = IF cb THEN Append(@, key) ELSE @,
                       !.late = @ \cup Unseen(st.data, {key}, IF cb THEN "f" ELSE Nil),
                       !.rm = [@ EXCEPT ![key] = IF cb THEN @ + 1 ELSE @],
                       !.hist = h2]
       ELSE \* c.stats.Misses++; v[key] = nilResponse
            [st EXCEPT !.stats = StatAdd(@, "Misses", 1),
                       !.v = MapStore(@, key, nilResponse),
                       !.hist = h2]

RECURSIVE KeysLoop(_, _, _, _)
KeysLoop(ks, st, cb, t) ==
    IF ks = <<>> THEN st
    ELSE KeysLoop(Tail(ks), Visit(st, Head(ks), cb, t), cb, t)

KeyLists == UNION {[1..n -> Keys] : n \in 0..MaxBatch}

\* func (c *LocalCache) GetKeysEntry(keys []Key) (v map[Key]*ResponseEntry),
\* after c.mu.Lock()
GetKeysEntry(t, keys, budget) ==
    /\ Locked(t, budget)
    /\ LET st == KeysLoop(keys, [data |-> data, stats |-> stats, v |-> <<>>,
                                 cb |-> cbCount, rm |-> rmCount, hist |-> hist,
                                 late |-> {}, fired |-> <<>>],
                          evicted # Nil, now)
       IN /\ data' = st.data
          /\ stats' = st.stats
          /\ cbCount' = st.cb
          /\ rmCount' = st.rm
          /\ hist' = st.hist
          /\ UnlockReturn(t, [Result(t, "GetKeysEntry", NoKey, "nil", Nil) EXCEPT
                                 !.m = st.v, !.late = st.late, !.keys = keys,
                                 !.fired = st.fired, !.pre = Pre])
    /\ UNCHANGED <<evicted, expiration, expireTick, readers, now, snap, crashed>>

\* ------------------------------------------------------------------ Expire
\* an Expire that counts a removal whether or not the key was there
ExpireOn_Always(st, key, fn) ==
    [data |-> MapDelete(st.data, key),
     stats |-> StatAdd(StatAdd(st.stats, "Entries", -1), "Expired", 1),
     cb |-> [st.cb EXCEPT ![key] = IF fn # Nil /\ key \in DOMAIN st.data THEN @ + 1 ELSE @]]

\* an Expire that forgets delete(c.data, key)
ExpireOn_Keep(st, key, fn) ==
    IF key \in DOMAIN st.data
    THEN [data |-> st.data,
          stats |-> StatAdd(StatAdd(st.stats, "Entries", -1), "Expired", 1),
          cb |-> [st.cb EXCEPT ![key] = IF fn # Nil THEN @ + 1 ELSE @]]
    ELSE st

\* the effect of Expire(key) on the table, the counters and the callback
\* counts st, with callback fn registered:
\* if e, ok := c.data[key]; ok { if c.evicted != nil { c.evicted(key, e) };
\*   delete(c.data, key); c.stats.Entries--; c.stats.Expired++ }
ExpireOn(st, key, fn) ==
    IF key \in DOMAIN st.data
    THEN [data |-> MapDelete(st.data, key),
          stats |-> StatAdd(StatAdd(st.stats, "Entries", -1), "Expired", 1),
          cb |-> [st.cb EXCEPT ![key] = IF fn # Nil THEN @ + 1 ELSE @]]
    ELSE st

\* func (c *LocalCache) Expire(key) (err error): c.mu.Lock(); ...;
\* c.mu.Unlock(); return
Expire(t, key, budget) ==
    /\ Locked(t, budget)
    /\ LET post == ExpireOn(Pre, key, evicted)
       IN /\ data' = post.data
          /\ stats' = post.stats
          /\ cbCount' = post.cb
          /\ rmCount' = [rmCount EXCEPT ![key] = @ + post.cb[key] - cbCount[key]]
          /\ hist' = [hist EXCEPT ![key] = Expired(@)]
          /\ UnlockReturn(t, [Result(t, "Expire", key, "nil", Nil) EXCEPT
                                 !.held = Holds(data, key, now), !.pre = Pre,
                                 !.had = hist[key].by,
                                 !.late = Unseen(data, {key} \cap DOMAIN data, evicted)])
    /\ UNCHANGED <<evicted, expiration, expireTick, readers, now, snap, crashed>>

\* ------------------------------------------------------------ Flush, Reset
\* if c.evicted != nil { for k, e := range c.data { c.evicted(k, e) } }
\* c.data = make(map[Key]Entry)
EvictAll ==
    /\ cbCount' = [k \in Keys |-> IF k \in DOMAIN data /\ evicted # Nil
                                  THEN cbCount[k] + 1 ELSE cbCount[k]]
    /\ rmCount' = [k \in Keys |-> IF k \in DOMAIN data /\ evicted # Nil
                                  THEN rmCount[k] + 1 ELSE rmCount[k]]
    /\ data' = EmptyMap
    /\ hist' = [k \in Keys |-> NoHist]

\* a flush that zeroes the counters as well
Flush_Zero(t, budget) ==
    /\ Locked(t, budget)
    /\ EvictAll
    /\ stats' = CacheStat
    /\ UnlockReturn(t, [Result(t, "Flush", NoKey, "nil", Nil) EXCEPT !.pre = Pre])
    /\ UNCHANGED <<evicted, expiration, expireTick, readers, now, snap, crashed>>

\* func (c *LocalCache) Flush(), after c.mu.Lock(): ...
\* c.stats.Expired += c.stats.Entries; c.stats.Entries = 0; c.mu.Unlock()
Flush(t, budget) ==
    /\ Locked(t, budget)
    /\ EvictAll
    /\ stats' = [stats EXCEPT !.Expired = @ + stats.Entries, !.Entries = 0]
    /\ UnlockReturn(t, [Result(t, "Flush", NoKey, "nil", Nil) EXCEPT
                           !.pre = Pre, !.late = Unseen(data, DOMAIN data, evicted)])
    /\ UNCHANGED <<evicted, expiration, expireTick, readers, now, snap, crashed>>

\* a Reset that drops the callback with the entries
Reset_Forget(t, budget) ==
    /\ Locked(t, budget)
    /\ EvictAll
    /\ stats' = CacheStat
    /\ evicted' = Nil
    /\ snap' = [u \in Threads |-> IF snap[u].ref = "c.stats"
                                  THEN [ref |-> "old", val |-> stats] ELSE snap[u]]
    /\ UnlockReturn(t, [Result(t, "Reset", NoKey, "nil", Nil) EXCEPT
                           !.pre = Pre, !.late = Unseen(data, DOMAIN data, evicted)])
    /\ UNCHANGED <<expiration, expireTick, readers, now, crashed>>

\* a reset that keeps the counters, as Flush does
Reset_Keep(t, budget) ==
    /\ Locked(t, budget)
    /\ EvictAll
    /\ stats' = [stats EXCEPT !.Expired = @ + stats.Entries, !.Entries = 0]
    /\ UnlockReturn(t, [Result(t, "Reset", NoKey, "nil", Nil) EXCEPT !.pre = Pre])
    /\ UNCHANGED <<evicted, expiration, expireTick, readers, now, snap, crashed>>

\* func (c *LocalCache) Reset(), after c.mu.Lock(): ...
\* c.stats = &CacheStat{}; c.mu.Unlock().  The struct c.stats pointed to stays
\* as it is, with the callers that hold its address.
Reset(t, budget) ==
    /\ Locked(t, budget)
    /\ EvictAll
    /\ stats' = CacheStat
    /\ snap' = [u \in Threads |-> IF snap[u].ref = "c.stats"
                                  THEN [ref |-> "old", val |-> stats] ELSE snap[u]]
    /\ UnlockReturn(t, [Result(t, "Reset", NoKey, "nil", Nil) EXCEPT
                           !.pre = Pre, !.late = Unseen(data, DOMAIN data, evicted)])
    /\ UNCHANGED <<evicted, expiration, expireTick, readers, now, crashed>>

\* ------------------------------------------------------------------- Stats
\* func (c *LocalCache) Stats() *CacheStat, after c.mu.Lock():
\* stats := c.stats; c.mu.Unlock(); return stats  -- the pointer, not a copy
Stats(t, budget) ==
    /\ Locked(t, budget)
    /\ snap' = [snap EXCEPT ![t] = [ref |-> "c.stats", val |-> CacheStat]]
    /\ UnlockReturn(t, [Result(t, "Stats", NoKey, "nil", Nil) EXCEPT !.stats = stats])
    /\ UNCHANGED <<data, stats, evicted, expiration, expireTick, readers, now,
                   crashed, cbCount, rmCount, hist>>

\* the struct a caller's *CacheStat points to, as the caller reads it now
Deref(s) == IF s.ref = "c.stats" THEN stats ELSE s.val

\* ------------------------------------------------- expireLoop, expireKeys
\* case <-ticker: c.expireKeys(): c.mu.Lock(). time.Tick(0) returns a nil
\* channel, so with ExpireTick <= 0 the loop never wakes.
expireLoop ==
    /\ Idle(Sweeper)
    /\ expireTick > 0
    /\ CanLock
    /\ writer' = Sweeper
    /\ pc' = [pc EXCEPT ![Sweeper] = "expireKeys"]
    /\ ev' = NoEv
    /\ UNCHANGED <<data, stats, evicted, expiration, expireTick, readers, now, loc,
                   snap, crashed, calls, cbCount, rmCount, hist>>

\* a sweep that removes every entry that has an expiry, passed or not
expireKeys_All ==
    /\ At(Sweeper, "expireKeys")
    /\ LET dead == {k \in DOMAIN data : data[k].expire # 0}
       IN /\ data' = [k \in DOMAIN data \ dead |-> data[k]]
          /\ cbCount' = [k \in Keys |-> IF k \in dead /\ evicted # Nil
                                        THEN cbCount[k] + 1 ELSE cbCount[k]]
          /\ rmCount' = [k \in Keys |-> IF k \in dead /\ evicted # Nil
                                        THEN rmCount[k] + 1 ELSE rmCount[k]]
          /\ hist' = [k \in Keys |->
                         IF k \in dead THEN [hist[k] EXCEPT !.swept = TRUE] ELSE hist[k]]
    /\ writer' = NoOne
    /\ pc' = [pc EXCEPT ![Sweeper] = "idle"]
    /\ ev' = [NoEv EXCEPT !.op = "expireKeys", !.by = Sweeper]
    /\ UNCHANGED <<stats, evicted, expiration, expireTick, readers, now, loc, snap,
                   crashed, calls>>

\* a sweep with the test inverted: it removes the entries that have not expired
expireKeys_Live ==
    /\ At(Sweeper, "expireKeys")
    /\ LET live == {k \in DOMAIN data : ~IsExpired(data[k], now)}
       IN /\ data' = [k \in DOMAIN data \ live |-> data[k]]
          /\ cbCount' = [k \in Keys |-> IF k \in live /\ evicted # Nil
                                        THEN cbCount[k] + 1 ELSE cbCount[k]]
          /\ rmCount' = [k \in Keys |-> IF k \in live /\ evicted # Nil
                                        THEN rmCount[k] + 1 ELSE rmCount[k]]
          /\ hist' = [k \in Keys |->
                         IF k \in live THEN [hist[k] EXCEPT !.swept = TRUE] ELSE hist[k]]
    /\ writer' = NoOne
    /\ pc' = [pc EXCEPT ![Sweeper] = "idle"]
    /\ ev' = [NoEv EXCEPT !.op = "expireKeys", !.by = Sweeper]
    /\ UNCHANGED <<stats, evicted, expiration, expireTick, readers, now, loc, snap,
                   crashed, calls>>

\* for key, entry := range c.data { if entry.IsExpired() { delete(c.data, key);
\*   if c.evicted != nil { c.evicted(key, entry) } } }; c.mu.Unlock()
expireKeys ==
    /\ At(Sweeper, "expireKeys")
    /\ LET dead == {k \in DOMAIN data : IsExpired(data[k], now)}
       IN /\ data' = [k \in DOMAIN data \ dead |-> data[k]]
          /\ cbCount' = [k \in Keys |-> IF k \in dead /\ evicted # Nil
                                        THEN cbCount[k] + 1 ELSE cbCount[k]]
          /\ rmCount' = [k \in Keys |-> IF k \in dead /\ evicted # Nil
                                        THEN rmCount[k] + 1 ELSE rmCount[k]]
          /\ hist' = [k \in Keys |->
                         IF k \in dead THEN [hist[k] EXCEPT !.swept = TRUE] ELSE hist[k]]
          /\ ev' = [NoEv EXCEPT !.op = "expireKeys", !.by = Sweeper,
                                !.late = UNION {Unseen(MapDelete(data, k), {k}, evicted) :
                                                   k \in dead}]
    /\ writer' = NoOne
    /\ pc' = [pc EXCEPT ![Sweeper] = "idle"]
    /\ UNCHANGED <<stats, evicted, expiration, expireTick, readers, now, loc, snap,
                   crashed, calls>>

\* ------------------------------------------------------------ specifications
\* the calls and steps of the caller goroutines in T, at most n calls in all
Step(T, n) ==
    \/ \E t \in T : Lock(t)
    \/ \E t \in T : RLock(t, n)
    \/ \E t \in T, fn \in NewFuncs : SetEvictedFunc(t, fn)
    \/ \E t \in T, k \in Keys, v \in Values : Set(t, k, v, n)
    \/ \E t \in T, k \in Keys, v \in Values, d \in Durations : SetWithExpire(t, k, v, d, n)
    \/ \E t \in T, k \in Keys, v \in Values : Add(t, k, v, n)
    \/ \E t \in T, k \in Keys, v \in Values, d \in Durations : AddWithExpire(t, k, v, d, n)
    \/ \E t \in T : AddInsert(t)
    \/ \E t \in T, k \in Keys : GetWithExpire(t, k)
    \/ \E t \in T, k \in Keys : GetEntry(t, k)
    \/ \E t \in T : HitLoad(t)
    \/ \E t \in T : HitStore(t)
    \/ \E t \in T : Callback(t)
    \/ \E t \in T : Delete(t)
    \/ \E t \in T : EntriesLoad(t)
    \/ \E t \in T : EntriesStore(t)
    \/ \E t \in T : ExpiredLoad(t)
    \/ \E t \in T : ExpiredStore(t)
    \/ \E t \in T : MissLoad(t)
    \/ \E t \in T : MissStore(t)
    \/ \E t \in T, ks \in KeyLists : GetKeysEntry(t, ks, n)
    \/ \E t \in T, k \in Keys : Expire(t, k, n)
    \/ \E t \in T : Flush(t, n)
    \/ \E t \in T : Reset(t, n)
    \/ \E t \in T : Stats(t, n)

\* any number of callers, the sweeper and the clock
Next == Tick \/ expireLoop \/ expireKeys \/ Step(Threads, MaxCalls) \/ MapRace

Spec == Init /\ [][Next]_vars

\* one caller, the sweeper and the clock
NextSeq == Tick \/ expireLoop \/ expireKeys \/ Step({1}, MaxCalls)

SpecSeq == Init /\ [][NextSeq]_vars

\* one caller making at most LiveCalls calls, the sweeper and the clock
NextLive == Tick \/ expireLoop \/ expireKeys \/ Step({1}, LiveCalls)

\* goroutine t goes on with the call it is in
Proceed(t) == pc[t] # "idle" /\ Step({t}, LiveCalls)

\* The scheduling the Go runtime gives: a goroutine inside a call keeps
\* running (callbacks return), so it reaches its Unlock; the ticker keeps
\* firing, and a Lock that is requested again and again while the RWMutex
\* becomes free again and again is granted (a waiting writer holds off new
\* readers); the sweeper holding the lock finishes its scan.
Fairness ==
    /\ WF_vars(Proceed(1))
    /\ SF_vars(expireLoop)
    /\ WF_vars(expireKeys)

SpecFair == Init /\ [][NextLive]_vars /\ Fairness

\* the steps of the Get-family calls of the caller goroutines in T
Reads(T, n) ==
    \/ \E t \in T : RLock(t, n)
    \/ \E t \in T, k \in Keys : GetWithExpire(t, k)
    \/ \E t \in T, k \in Keys : GetEntry(t, k)
    \/ \E t \in T : HitLoad(t)
    \/ \E t \in T : HitStore(t)
    \/ \E t \in T : Callback(t)
    \/ \E t \in T : Delete(t)
    \/ \E t \in T : EntriesLoad(t)
    \/ \E t \in T : EntriesStore(t)
    \/ \E t \in T : ExpiredLoad(t)
    \/ \E t \in T : ExpiredStore(t)
    \/ \E t \in T : MissLoad(t)
    \/ \E t \in T : MissStore(t)

\* a caller making every kind of call and a caller that only reads, the
\* sweeper and the clock
NextRead ==
    Tick \/ expireLoop \/ expireKeys \/ Step({1}, LiveCalls) \/ Reads({2}, MaxCalls)
        \/ MapRace

\* the reading goroutine t goes on with the call it is in
ProceedRead(t) == pc[t] # "idle" /\ Reads({t}, MaxCalls)

\* the same scheduling, for both callers and the sweeper
FairnessRead ==
    /\ WF_vars(Proceed(1))
    /\ WF_vars(ProceedRead(2))
    /\ SF_vars(expireLoop)
    /\ WF_vars(expireKeys)

SpecFairRead == Init /\ [][NextRead]_vars /\ FairnessRead

\* ------------------------------------------------------------------ claims
Getters == {"GetWithExpire", "GetEntry"}

\* C1, as stated: the first Get issued after the TTL of an inserted key has run
\* out (the key not written, expired, flushed or reset since) fails with
\* ErrExpiredKey, and the next Get of the key fails with ErrNoSuchKey.
C1_FirstGetExpired ==
    ev.op = "GetWithExpire" =>
        /\ ev.phase = "first" => Get(ev).err = "ErrExpiredKey"
        /\ ev.phase = "next" => Get(ev).err = "ErrNoSuchKey"

\* C1, amended: the first Get-family call after the TTL has run out fails with
\* ErrExpiredKey unless the background sweep has already removed the entry, in
\* which case it fails with ErrNoSuchKey; a later call fails with ErrNoSuchKey.
C1_FirstGetExpiredUnlessSwept ==
    ev.op \in Getters =>
        /\ ev.phase = "first" =>
              ev.err = IF hist[ev.key].swept THEN "ErrNoSuchKey" ELSE "ErrExpiredKey"
        /\ ev.phase = "next" => ev.err = "ErrNoSuchKey"

\* a second Get after the one that discovered the expiry, no sweep involved
C1_Witness ==
    /\ ev.op = "GetWithExpire"
    /\ ev.phase = "next"
    /\ Get(ev).err = "ErrNoSuchKey"
    /\ ~hist[ev.key].swept

\* C2: the eviction callback is never invoked twice for the same entry
\* instance, whatever the interleaving of callers and sweep.
C2_CallbackOnce == \A k \in Keys : cbCount[k] <= 1

\* C3: every step that changes the table or a counter is taken by a goroutine
\* that holds the lock in exclusive mode, no goroutine holding it in shared mode.
C3_MutateExclusively ==
    [][(data' # data \/ stats' # stats) => (writer # NoOne /\ readers = {})]_vars

\* C4: Stats().Entries is the number of entries stored in the table.
C4_EntriesIsTableSize ==
    ev.op = "Stats" => ev.stats.Entries = Cardinality(DOMAIN data)

\* C5: Add on a key holding a live entry returns ErrDuplicateKey and leaves the
\* table, the counters and the callback counts as it found them.
C5_DuplicateAdd ==
    (ev.op = "Add" /\ ev.held = "live") =>
        /\ ev.err = "ErrDuplicateKey"
        /\ data = ev.pre.data
        /\ stats = ev.pre.stats
        /\ cbCount = ev.pre.cb

\* an Add refused on a key a previous Add had filled
C5_Witness ==
    /\ ev.op = "Add"
    /\ ev.held = "live"
    /\ ev.err = "ErrDuplicateKey"
    /\ hist[ev.key].by = "Add"
    /\ data[ev.key].value = hist[ev.key].v

\* C6: Add on a key whose entry has expired and is still in the table returns
\* nil and replaces the entry; a Get before the new TTL runs out returns the
\* added value.
C6_AddOverExpired ==
    /\ (ev.op = "Add" /\ ev.held = "dead") =>
          /\ ev.err = "nil"
          /\ ev.key \in DOMAIN data
          /\ data[ev.key].value = hist[ev.key].v
          /\ hist[ev.key].by = "Add"
          /\ ~(data[ev.key].expire # 0 /\ data[ev.key].expire < now)
    /\ (ev.op = "GetWithExpire" /\ hist[ev.key].by = "Add" /\ ev.phase = "none") =>
          /\ Get(ev).err = "nil"
          /\ Get(ev).v = hist[ev.key].v

\* an Add that has replaced a dead entry
C6_Witness ==
    /\ ev.op = "Add"
    /\ ev.held = "dead"
    /\ ev.err = "nil"
    /\ ev.key \in DOMAIN data

\* C7: Add's check and insert are one critical section: no two goroutines are
\* past the check at once, the key is still not live when the insert happens,
\* an Add returns nil exactly when the key held no live entry, and after every
\* Add the table holds the value of the call that succeeded.
C7_AtomicAdd ==
    /\ \A t \in Threads :
          pc[t] = "add_insert" =>
              /\ writer = t
              /\ Holds(data, loc[t].key, now) # "live"
              /\ \A u \in Threads \ {t} : pc[u] \notin {"locked", "add_insert"}
    /\ ev.op = "Add" =>
          /\ (ev.err = "nil") = (ev.held # "live")
          /\ (ev.err = "ErrDuplicateKey") = (ev.held = "live")
          /\ ev.key \in DOMAIN data
          /\ hist[ev.key].by \in Inserts
          /\ data[ev.key].value = hist[ev.key].v
          /\ ev.err = "nil" => hist[ev.key].by = "Add"

\* the second caller's Add of a key is refused in the same instant in which the
\* only other call, an Add of that key, succeeded
C7_Witness ==
    /\ ev.op = "Add"
    /\ ev.by = 2
    /\ ev.err = "ErrDuplicateKey"
    /\ hist[ev.key].by = "Add"
    /\ calls = 2
    /\ stats.Total = 1
    /\ now = 1

\* C8: a Get of a key that is not in the table returns ErrNoSuchKey, and its
\* return is the step that adds one to Misses; it fires no callback and leaves
\* the table and the other counters alone.
C8_AbsentGet ==
    [][(ev'.op = "GetWithExpire" /\ ev'.key \notin DOMAIN ev'.pre.data) =>
          /\ Get(ev').err = "ErrNoSuchKey"
          /\ data' = data
          /\ stats' = [stats EXCEPT !.Misses = @ + 1]
          /\ cbCount' = cbCount]_vars

\* C9: an entry inserted with a TTL <= 0 stays in the table, live, until a
\* caller overwrites or removes it, and every Get of it returns its value.
C9_NeverExpires ==
    /\ \A k \in Keys :
          (hist[k].by \in Inserts /\ hist[k].exp = 0) =>
              /\ k \in DOMAIN data
              /\ data[k].value = hist[k].v
              /\ ~(data[k].expire # 0 /\ data[k].expire < now)
    /\ (ev.op = "GetWithExpire" /\ hist[ev.key].by \in Inserts /\ hist[ev.key].exp = 0) =>
          /\ Get(ev).err = "nil"
          /\ Get(ev).v = hist[ev.key].v

\* a Get of an entry without expiry, after the clock has advanced and a sweep
\* has removed the other key's entry
C9_Witness ==
    /\ ev.op = "GetWithExpire"
    /\ Get(ev).err = "nil"
    /\ hist[ev.key].by \in Inserts
    /\ hist[ev.key].exp = 0
    /\ hist[ev.key].aged
    /\ \E k \in Keys \ {ev.key} : hist[k].swept

\* C10: Set(k, v) followed by Get(k) before the TTL runs out, k not written or
\* removed in between, returns v and no error, whatever k held before the Set.
C10_SetGet ==
    /\ ev.op = "Set" =>
          /\ ev.key \in DOMAIN data
          /\ data[ev.key].value = hist[ev.key].v
    /\ (ev.op = "GetWithExpire" /\ hist[ev.key].by = "Set" /\ ev.phase = "none") =>
          /\ Get(ev).err = "nil"
          /\ Get(ev).v = hist[ev.key].v

\* a Get returning the value of the second of two Sets of the same key
C10_Witness ==
    /\ ev.op = "GetWithExpire"
    /\ Get(ev).err = "nil"
    /\ hist[ev.key].by = "Set"
    /\ Get(ev).v = hist[ev.key].v
    /\ stats.Total = 2
    /\ stats.Entries = 2
    /\ Cardinality(DOMAIN data) = 1
    /\ \A k \in Keys \ {ev.key} : hist[k] = NoHist

\* C11: SetEvictedFunc succeeds exactly when no callback is registered and then
\* registers the function given; otherwise it panics with
\* ErrDuplicateEvictedFunc and the callback registered before stays; either
\* way the lock is free when the call is over.
C11_RegisterOnce ==
    ev.op = "SetEvictedFunc" =>
        /\ (ev.err = "nil") = (ev.had = Nil)
        /\ ev.err = "nil" => evicted = ev.v
        /\ ev.err # "nil" =>
              /\ ev.err = "panic: ErrDuplicateEvictedFunc"
              /\ evicted = ev.had
        /\ writer = NoOne
        /\ readers = {}
        /\ pc[ev.by] = "idle"

\* a second registration, of another function, has panicked
C11_Witness ==
    /\ ev.op = "SetEvictedFunc"
    /\ ev.err = "panic: ErrDuplicateEvictedFunc"
    /\ ev.v = "g"
    /\ evicted = "f"
    /\ writer = NoOne

\* C12: Flush empties the table, so that every key then yields ErrNoSuchKey,
\* leaves Hits, Misses and Total as they were, sets Entries to 0 and adds to
\* Expired the value Entries had.
C12_Flush ==
    /\ ev.op = "Flush" =>
          /\ data = EmptyMap
          /\ stats = [Entries |-> 0,
                      Expired |-> ev.pre.stats.Expired + ev.pre.stats.Entries,
                      Hits |-> ev.pre.stats.Hits,
                      Misses |-> ev.pre.stats.Misses,
                      Total |-> ev.pre.stats.Total]
    /\ (ev.op \in Getters /\ ev.key \notin DOMAIN ev.pre.data) =>
          ev.err = "ErrNoSuchKey"

\* a Flush of a table that held an entry, after a hit and a miss
C12_Witness ==
    /\ ev.op = "Flush"
    /\ ev.pre.data # EmptyMap
    /\ ev.pre.stats.Entries = 1
    /\ ev.pre.stats.Hits + ev.pre.stats.Misses = 1
    /\ stats.Expired = 1
    /\ stats.Total = 1

\* C13: Reset empties the table and zeroes the five counters, which is what a
\* following Stats reads, and the registered callback fires once for each entry
\* that was stored, and for no other key.
C13_Reset ==
    /\ ev.op = "Reset" =>
          /\ data = EmptyMap
          /\ stats = CacheStat
          /\ \A k \in Keys :
                cbCount[k] = ev.pre.cb[k] +
                             (IF k \in DOMAIN ev.pre.data /\ evicted # Nil THEN 1 ELSE 0)
    /\ ev.op = "Stats" => ev.stats = stats

\* a Reset of a table with an entry and non-zero counters, a callback registered
C13_Witness ==
    /\ ev.op = "Reset"
    /\ evicted # Nil
    /\ Cardinality(DOMAIN ev.pre.data) = 1
    /\ ev.pre.stats.Total = 2
    /\ \E k \in Keys : cbCount[k] = 1

\* C14: the counters a caller got from Stats stay as they were when Stats
\* returned, whatever runs afterwards.
C14_Snapshot ==
    [][\A t \in Threads :
          (snap[t].ref # "nil" /\ ~(ev'.op = "Stats" /\ ev'.by = t)) =>
              (IF snap'[t].ref = "c.stats" THEN stats' ELSE snap'[t].val)
                  = (IF snap[t].ref = "c.stats" THEN stats ELSE snap[t].val)]_vars

\* C15: whatever the type of the stored value, a typed accessor returns
\* ErrNoSuchKey for an absent key and ErrExpiredKey for an expired one;
\* ErrTypeMismatch is returned only for a key that holds a live value.
C15_TypedErrors ==
    ev.op = "GetWithExpire" =>
        \A a \in Accessors, ty \in GoTypes :
            /\ ev.held = "absent" => ev.typed[a][ty].err = "ErrNoSuchKey"
            /\ ev.held = "dead" => ev.typed[a][ty].err = "ErrExpiredKey"
            /\ ev.typed[a][ty].err = "ErrTypeMismatch" => ev.held = "live"

\* GetInt64 of an expired key holding a string fails with ErrExpiredKey, and
\* GetInt64 of that string while live would be a type mismatch
C15_Witness ==
    /\ ev.op = "GetWithExpire"
    /\ ev.held = "dead"
    /\ ev.typed["GetInt64"]["string"].err = "ErrExpiredKey"

\* C16: GetFloat64 of a live key holding a float64 or a float32 returns the
\* stored number as a float64, with a nil error.
C16_GetFloat64 ==
    (ev.op = "GetWithExpire" /\ ev.held = "live") =>
        \A ty \in {"float32", "float64"} :
            /\ ev.typed["GetFloat64"][ty].err = "nil"
            /\ ev.typed["GetFloat64"][ty].v = Converted("GetFloat64", ty, ev.v)

\* C17: Expire(k) returns a nil error whatever the table holds under k, and
\* it is idempotent: after it has returned, one more Expire(k) would leave the
\* table, the counters and the callback counts as they are, and an Expire(k)
\* that follows an Expire(k) did leave them as they were.
C17_ExpireIdempotent ==
    ev.op = "Expire" =>
        /\ ev.err = "nil"
        /\ ExpireOn(Pre, ev.key, evicted) = Pre
        /\ ev.had = "Expire" => Pre = ev.pre

\* the second of two Expire calls on a key that held an entry returns
C17_Witness ==
    /\ ev.op = "Expire"
    /\ ev.had = "Expire"
    /\ ev.held = "absent"
    /\ stats.Total = 1
    /\ stats.Expired = 1
    /\ cbCount[ev.key] = 1

\* C18: Expire(k) of a present key, live or expired, removes it, fires the
\* callback once, decrements Entries and increments Expired; a Get of k
\* afterwards, before a new insert, fails with ErrNoSuchKey.
C18_ExpirePresent ==
    /\ (ev.op = "Expire" /\ ev.held # "absent") =>
          /\ ev.key \notin DOMAIN data
          /\ \A k \in Keys \ {ev.key} :
                 (k \in DOMAIN data) = (k \in DOMAIN ev.pre.data)
          /\ stats = [ev.pre.stats EXCEPT !.Entries = @ - 1, !.Expired = @ + 1]
          /\ cbCount = [ev.pre.cb EXCEPT
                           ![ev.key] = IF evicted # Nil THEN @ + 1 ELSE @]
    /\ (ev.op \in Getters /\ hist[ev.key].by = "Expire") =>
          /\ ev.held = "absent"
          /\ ev.err = "ErrNoSuchKey"

\* an expired entry is removed by Expire, with the callback
C18_Witness ==
    /\ ev.op = "Expire"
    /\ ev.held = "dead"
    /\ evicted # Nil
    /\ cbCount[ev.key] = 1

\* a Get after Expire removed the entry
C18_GetWitness ==
    /\ ev.op \in Getters
    /\ hist[ev.key].by = "Expire"
    /\ stats.Total = 1
    /\ stats.Expired = 1

\* Expire applied to each key of ks in turn
RECURSIVE ExpireEach(_, _, _)
ExpireEach(st, ks, fn) ==
    IF ks = {} THEN st
    ELSE LET k == CHOOSE x \in ks : TRUE
         IN ExpireEach(ExpireOn(st, k, fn), ks \ {k}, fn)

\* C19: a sweep leaves the table, the counters and the callback counts as
\* Expire called on each key whose entry has expired at sweep time would:
\* the same keys removed, one callback per removed entry, Entries decremented
\* and Expired incremented by the number of removed entries.
C19_SweepAsExpire ==
    [][(pc[Sweeper] = "expireKeys" /\ pc'[Sweeper] = "idle") =>
          Pre' = ExpireEach(Pre, {k \in DOMAIN data : IsExpired(data[k], now)}, evicted)]_vars

\* the part of C19 the sweep does satisfy: the keys removed and the callbacks
\* fired are those of Expire on each expired key
C19_SweepRemoves ==
    [][(pc[Sweeper] = "expireKeys" /\ pc'[Sweeper] = "idle") =>
          LET post == ExpireEach(Pre, {k \in DOMAIN data : IsExpired(data[k], now)}, evicted)
          IN /\ data' = post.data
             /\ cbCount' = post.cb]_vars

\* the table holds an expired entry under key k
Dead(k) == k \in DOMAIN data /\ IsExpired(data[k], now)

\* C20: with a positive sweep interval and a fairly scheduled sweep task,
\* an entry that has expired is eventually removed from the table, whether
\* or not a caller reads, expires or flushes it.
C20_EventuallySwept ==
    \A k \in Keys : Dead(k) ~> ~Dead(k)

\* the sweep removed an expired entry that no caller had looked up
C20_Witness ==
    /\ ev.op = "expireKeys"
    /\ \E k \in Keys : /\ hist[k].swept
                       /\ ~hist[k].looked
                       /\ k \notin DOMAIN data

\* C21: on every eviction path the callback runs before the entry is removed:
\* when the callback is called, the table still holds the evicted key.
C21_CallbackBeforeDelete == ev.late = {}

\* the sweep is the path that calls the callback for an entry it has deleted
C21_SweepDeletesFirst ==
    ev.late # {} => ev.op \in {"expireKeys", "callback"}

\* C22: every operation that has been invoked eventually returns, with the
\* lock released: a goroutine inside a method is eventually outside it,
\* holding neither mode of the lock.
C22_EventuallyReturns ==
    \A t \in Threads :
        (pc[t] # "idle") ~> (pc[t] = "idle" /\ writer # t /\ t \notin readers)

\* the lock is released on every exit path: a goroutine outside every method
\* holds neither mode of the lock
C22_ReleasedAtReturn ==
    \A p \in Procs : pc[p] = "idle" => (writer # p /\ p \notin readers)

\* the entry a returning getter found at its lookup
Found_e == ev.pre.data[ev.key]

\* C23: GetWithExpire of a live key returns the time left until expiry, which
\* is not negative, when the entry has an expiry, and the fixed sentinel
\* ExpireDuration, whatever the time, when the entry never expires.
C23_Remaining ==
    (ev.op = "GetWithExpire" /\ ev.err = "nil") =>
        IF Found_e.expire # 0
        THEN /\ ev.expire >= 0
             /\ \E t \in 1..now : ev.expire = Found_e.expire - t
        ELSE ev.expire = ExpireDuration

\* the part of C23 that holds: the time left of an entry that has an expiry
C23_FiniteRemaining ==
    (ev.op = "GetWithExpire" /\ ev.err = "nil" /\ Found_e.expire # 0) =>
        /\ ev.expire >= 0
        /\ \E t \in 1..now : ev.expire = Found_e.expire - t

\* what is returned for an entry that never expires is minus the clock
C23_MinusNow ==
    (ev.op = "GetWithExpire" /\ ev.err = "nil" /\ Found_e.expire = 0) =>
        \E t \in 1..now : ev.expire = 0 - t

\* GetEntry(key) run at time t with no other goroutine's step in between,
\* from st = [data, stats, cb, fired, v]; the caller keeps each answer in v
GetEntryOn(st, key, fn, t) ==
    LET ok == key \in DOMAIN st.data
        e == IF ok THEN st.data[key] ELSE NoEntry
    IN IF ok /\ ~IsExpired(e, t)
       THEN \* c.stats.Hits++; return &ResponseEntry{true, e.value}, nil
            [st EXCEPT !.stats = StatAdd(@, "Hits", 1),
                       !.v = MapStore(@, key, ResponseEntry(TRUE, e.value))]
       ELSE IF ok
       THEN \* c.evicted(key, e); delete(c.data, key); c.stats.Entries--;
            \* c.stats.Expired++; c.stats.Misses++; return nilResponse, ErrExpiredKey
            [st EXCEPT !.cb = [@ EXCEPT ![key] = IF fn # Nil THEN @ + 1 ELSE @],
                       !.fired = IF fn # Nil THEN Append(@, key) ELSE @,
                       !.data = MapDelete(@, key),
                       !.stats = StatAdd(StatAdd(StatAdd(@, "Entries", -1),
                                                 "Expired", 1), "Misses", 1),
                       !.v = MapStore(@, key, nilResponse)]
       ELSE \* c.stats.Misses++; return nilResponse, ErrNoSuchKey
            [st EXCEPT !.stats = StatAdd(@, "Misses", 1),
                       !.v = MapStore(@, key, nilResponse)]

\* GetEntry called on each key of ks in turn
RECURSIVE EachGetEntry(_, _, _, _)
EachGetEntry(ks, st, fn, t) ==
    IF ks = <<>> THEN st
    ELSE EachGetEntry(Tail(ks), GetEntryOn(st, Head(ks), fn, t), fn, t)

\* the state a returning call found, with no callback fired and no answer yet
Before == [data |-> ev.pre.data, stats |-> ev.pre.stats, cb |-> ev.pre.cb,
           fired |-> <<>>, v |-> <<>>]

\* C24: GetKeysEntry(keys) leaves the table, the counters and the callback
\* counts, and gives the answers per key and the sequence of callbacks, that
\* GetEntry called on each key in the order given would, with nothing in
\* between, also when a key is listed more than once.
C24_BatchAsEach ==
    ev.op = "GetKeysEntry" =>
        LET each == EachGetEntry(ev.keys, Before, evicted, now)
        IN /\ data = each.data
           /\ stats = each.stats
           /\ cbCount = each.cb
           /\ ev.fired = each.fired
           /\ ev.m = each.v

\* a batch that lists an expired key twice: one callback, two misses
C24_Witness ==
    /\ ev.op = "GetKeysEntry"
    /\ Len(ev.keys) = 2
    /\ ev.keys[1] = ev.keys[2]
    /\ ev.fired = <<ev.keys[1]>>
    /\ stats.Misses = ev.pre.stats.Misses + 2
    /\ ~ev.m[ev.keys[1]].Valid

\* the steps of a GetEntry call that no other caller interleaves with amount
\* to GetEntryOn
C24_GetEntryAlone ==
    ev.op = "GetEntry" =>
        \E t \in 1..now :
            LET r == GetEntryOn(Before, ev.key, evicted, t)
            IN /\ Holds(ev.pre.data, ev.key, t) = ev.held
               /\ data = r.data
               /\ stats = r.stats
               /\ cbCount = r.cb
               /\ r.v[ev.key].Valid = ev.valid
               /\ r.v[ev.key].Value = ev.v

\* C25: Set and SetWithExpire always succeed, storing the value given, and
\* call no callback, in particular not for a live entry they replace; the
\* entries under the other keys and their callback counts stay as they were.
C25_SetNoCallback ==
    ev.op = "Set" =>
        /\ ev.err = "nil"
        /\ ev.key \in DOMAIN data
        /\ data[ev.key].value = hist[ev.key].v
        /\ ev.fired = <<>>
        /\ \A k \in Keys \ {ev.key} :
              /\ cbCount[k] = ev.pre.cb[k]
              /\ (k \in DOMAIN data) = (k \in DOMAIN ev.pre.data)
              /\ k \in DOMAIN data => data[k] = ev.pre.data[k]

\* a Set replaces a live entry holding another value, with a callback registered
C25_Witness ==
    /\ ev.op = "Set"
    /\ ev.held = "live"
    /\ evicted # Nil
    /\ ev.pre.data[ev.key].value # data[ev.key].value
    /\ ev.pre.cb[ev.key] = 0

\* an entry is live at time t when it never expires or t is before its expiry
LiveBefore(e, t) == e.expire = 0 \/ e.expire > t
\* ... or when t is not after its expiry
LiveUpTo(e, t) == e.expire = 0 \/ e.expire >= t

\* every operation that looks at the expiry of an entry in this step treats
\* the entry as live exactly when Live says it is: the lookup of a getter, the
\* duplicate check of Add, a batch lookup and the sweep
Observes(Live(_, _)) ==
    /\ \A t \in Threads :
          (pc[t] = "rlocked" /\ pc'[t] # "rlocked" /\ loc'[t].key \in DOMAIN data) =>
              (pc'[t] = "hit_load") = Live(data[loc'[t].key], now)
    /\ \A t \in Threads :
          (pc[t] = "locked" /\ pc'[t] = "add_insert") =>
              ~(loc'[t].key \in DOMAIN data /\ Live(data[loc'[t].key], now))
    /\ (ev'.op = "Add" /\ ev'.err = "ErrDuplicateKey") =>
              (ev'.key \in DOMAIN data /\ Live(data[ev'.key], now))
    /\ ev'.op = "GetKeysEntry" =>
          \A i \in 1..Len(ev'.keys) :
              ev'.m[ev'.keys[i]].Valid =
                  (ev'.keys[i] \in DOMAIN data /\ Live(data[ev'.keys[i]], now))
    /\ (pc[Sweeper] = "expireKeys" /\ pc'[Sweeper] = "idle") =>
              DOMAIN data' = {k \in DOMAIN data : Live(data[k], now)}

\* C26: an entry with an expiry is treated as live, by every operation,
\* exactly when its expiry is after now; at now = expiry it is expired.
C26_LiveIffAfterNow == [][Observes(LiveBefore)]_vars

\* what the operations do: the entry is live until now has passed its expiry
C26_LiveUntilPassed == [][Observes(LiveUpTo)]_vars

\* what a getter that found the key expired has done between its lookup and
\* its return; this is C27 for a call that no other call overlaps
C27_ExpiredGetAlone ==
    (ev.op \in Getters /\ ev.held = "dead") =>
        /\ ev.err = "ErrExpiredKey"
        /\ data = MapDelete(ev.pre.data, ev.key)
        /\ stats = [ev.pre.stats EXCEPT !.Entries = @ - 1, !.Expired = @ + 1,
                                        !.Misses = @ + 1]
        /\ cbCount = [ev.pre.cb EXCEPT ![ev.key] = IF evicted # Nil THEN @ + 1 ELSE @]

\* C27: a Get, GetWithExpire or GetEntry call that finds the key present but
\* expired calls the callback with the stale entry, which the table still
\* holds, then removes the key, subtracts one from Entries, adds one to Expired
\* and to Misses, each of these steps changing nothing else, and returns the
\* key-expired error.
C27_ExpiredGet ==
    [][/\ \A t \in Threads :
             /\ (pc[t] = "callback" /\ pc'[t] = "delete") =>
                   /\ loc[t].key \in DOMAIN data
                   /\ data[loc[t].key] = loc[t].e
                   /\ stats' = stats /\ data' = data
             /\ (pc[t] = "delete" /\ pc'[t] = "entries_load") =>
                   /\ loc[t].key \in DOMAIN data
                   /\ data' = MapDelete(data, loc[t].key)
                   /\ stats' = stats
             /\ (pc[t] = "entries_store" /\ pc'[t] = "expired_load") =>
                   stats' = [stats EXCEPT !.Entries = @ - 1]
             /\ (pc[t] = "expired_store" /\ pc'[t] = "miss_load") =>
                   stats' = [stats EXCEPT !.Expired = @ + 1]
       /\ (ev'.op \in Getters /\ ev'.held = "dead") =>
             /\ ev'.err = "ErrExpiredKey"
             /\ stats' = [stats EXCEPT !.Misses = @ + 1]
             /\ data' = data]_vars

\* what a getter that found the key live has done between its lookup and its
\* return; this is C28 for a call that no other call overlaps
C28_LiveGetAlone ==
    (ev.op \in Getters /\ ev.held = "live") =>
        /\ ev.err = "nil"
        /\ ev.v = ev.pre.data[ev.key].value
        /\ data = ev.pre.data
        /\ stats = [ev.pre.stats EXCEPT !.Hits = @ + 1]
        /\ cbCount = ev.pre.cb

\* C28: a Get, GetWithExpire or GetEntry call that finds the key present and
\* live returns its value, and its return is the step that adds one to Hits;
\* it changes nothing else: the table, the other counters and the callback
\* counts stay as they are.
C28_LiveGet ==
    [][(ev'.op \in Getters /\ ev'.held = "live") =>
          /\ ev'.err = "nil"
          /\ ev'.v = ev'.pre.data[ev'.key].value
          /\ data' = data
          /\ stats' = [stats EXCEPT !.Hits = @ + 1]
          /\ cbCount' = cbCount]_vars

\* C29: while a goroutine runs the callback, on any eviction path, no other
\* goroutine is inside a method or a sweep: whoever calls the callback holds
\* the lock alone.
C29_CallbackExclusive ==
    /\ \A t \in Threads :
          (pc[t] = "callback" /\ evicted # Nil) =>
              \A p \in Procs \ {t} : pc[p] = "idle"
    /\ \A p \in Procs :
          writer = p => (readers = {} /\ \A q \in Procs \ {p} : pc[q] = "idle")

\* the paths that call the callback under the exclusive lock do hold it alone
C29_WriterExclusive ==
    \A p \in Procs :
        writer = p => (readers = {} /\ \A q \in Procs \ {p} : pc[q] = "idle")

\* the lookups of the batch that has just returned whose answer is valid
ValidLookups(e) == {i \in 1..Len(e.keys) : e.m[e.keys[i]].Valid}

\* C30: no counter update is lost: every lookup that returns a live value adds
\* one to Hits, every lookup that returns absent or expired adds one to
\* Misses, and nothing else changes the two counters but Reset, which zeroes
\* them; so Hits and Misses are the numbers of such lookups since creation or
\* the last Reset.
C30_NoLostUpdate ==
    [][/\ (ev'.op \in Getters /\ ev'.err = "nil") =>
             (stats'.Hits = stats.Hits + 1 /\ stats'.Misses = stats.Misses)
       /\ (ev'.op \in Getters /\ ev'.err # "nil") =>
             (stats'.Misses = stats.Misses + 1 /\ stats'.Hits = stats.Hits)
       /\ ev'.op = "GetKeysEntry" =>
             /\ stats'.Hits = stats.Hits + Cardinality(ValidLookups(ev'))
             /\ stats'.Misses = stats.Misses + Len(ev'.keys) - Cardinality(ValidLookups(ev'))
       /\ ev'.op = "Reset" => (stats'.Hits = 0 /\ stats'.Misses = 0)
       /\ ev'.op \notin Getters \cup {"GetKeysEntry", "Reset"} =>
             (stats'.Hits = stats.Hits /\ stats'.Misses = stats.Misses)]_vars

\* C31: the expiry of a stored entry is the one fixed when it was inserted,
\* the time of insertion plus the TTL, or none: every entry in the table has
\* the value and the expiry its last Set or Add gave it, whatever was called
\* since, a successful Get included.
C31_ExpiryFixed ==
    \A k \in DOMAIN data :
        /\ hist[k].by \in Inserts
        /\ data[k].expire = hist[k].exp
        /\ data[k].value = hist[k].v

\* a Get returns an entry with an expiry, at a later time than its insertion
C31_Witness ==
    /\ ev.op \in Getters
    /\ ev.err = "nil"
    /\ ev.key \in DOMAIN data
    /\ data[ev.key].expire = now
    /\ hist[ev.key].exp = now
    /\ stats.Hits >= 1

\* C32: a sweep removes every entry whose expiry has passed when it is
\* visited and leaves every other entry, with or without expiry, in the table
\* as it is; a Get of an entry whose TTL has not run out returns its value,
\* sweeps or not.
C32_SweepOnlyExpired ==
    [][/\ (pc[Sweeper] = "expireKeys" /\ pc'[Sweeper] = "idle") =>
             /\ DOMAIN data' \subseteq DOMAIN data
             /\ \A k \in DOMAIN data :
                   IF IsExpired(data[k], now)
                   THEN k \notin DOMAIN data'
                   ELSE k \in DOMAIN data' /\ data'[k] = data[k]
       /\ (ev'.op \in Getters /\ ev'.phase = "none" /\ hist[ev'.key].by \in Inserts) =>
             /\ ev'.err = "nil"
             /\ ev'.v = hist[ev'.key].v]_vars

\* a sweep has removed an expired entry and kept one whose expiry is still ahead
C32_Witness ==
    /\ ev.op = "expireKeys"
    /\ \E k \in Keys : hist[k].swept /\ k \notin DOMAIN data
    /\ \E k \in DOMAIN data : data[k].expire # 0 /\ ~IsExpired(data[k], now)

\* C33: every Set and SetWithExpire adds one to Entries and one to Total,
\* whether the key was absent, live or expired; so does every Add and
\* AddWithExpire that succeeds, and one that fails changes no counter.
C33_InsertCounts ==
    /\ ev.op = "Set" =>
          stats = [ev.pre.stats EXCEPT !.Entries = @ + 1, !.Total = @ + 1]
    /\ (ev.op = "Add" /\ ev.err = "nil") =>
          stats = [ev.pre.stats EXCEPT !.Entries = @ + 1, !.Total = @ + 1]
    /\ (ev.op = "Add" /\ ev.err # "nil") =>
          /\ ev.err = "ErrDuplicateKey"
          /\ stats = ev.pre.stats

\* a Set over an expired entry that nothing has removed: two entries counted,
\* one stored
C33_Witness ==
    /\ ev.op = "Set"
    /\ ev.held = "dead"
    /\ stats.Entries = 2
    /\ stats.Total = 2
    /\ Cardinality(DOMAIN data) = 1

\* C34 with one caller: whenever the lock is free, Entries + Expired = Total.
C34_BalancedAlone ==
    (writer = NoOne /\ readers = {}) => stats.Entries + stats.Expired = stats.Total

\* C34: whenever no goroutine is inside a method or a sweep (the lock is held
\* in neither mode), Entries + Expired = Total: every entry counted in Total is
\* counted either as stored or as expired.
C34_Balanced ==
    (\A p \in Procs : pc[p] = "idle") => stats.Entries + stats.Expired = stats.Total

\* C35: the Entries counter is never negative.
C35_EntriesNonNegative == stats.Entries >= 0

\* C36: the callback slot only goes from empty to filled: once a callback is
\* registered no step clears or replaces it, and an Expire of a stored key
\* then notifies it, after a Reset as before one.
C36_CallbackKept ==
    [][/\ evicted # Nil => evicted' = evicted
       /\ (ev'.op = "Expire" /\ ev'.held # "absent" /\ evicted # Nil) =>
             cbCount'[ev'.key] = cbCount[ev'.key] + 1]_vars

\* after a Reset that notified the callback, a second registration has
\* panicked and the first function is still the one registered
C36_Witness ==
    /\ ev.op = "SetEvictedFunc"
    /\ ev.err = "panic: ErrDuplicateEvictedFunc"
    /\ ev.v = "g"
    /\ evicted = "f"
    /\ stats = CacheStat
    /\ data = EmptyMap
    /\ \E k \in Keys : cbCount[k] = 1

\* the typed accessors that answer ErrTypeMismatch on top of the lookup e, for
\* some dynamic type of the stored value
Mismatched(e) ==
    IF e.op # "GetWithExpire" THEN {}
    ELSE {a \in Accessors : \E ty \in GoTypes : e.typed[a][ty].err = "ErrTypeMismatch"}

\* C37 with one caller: after a typed accessor has answered ErrTypeMismatch
\* the table and the callback counts are as the call found them, Hits is one
\* more, and the key still holds the value the lookup read.
C37_MismatchAlone ==
    Mismatched(ev) # {} =>
        /\ data = ev.pre.data
        /\ cbCount = ev.pre.cb
        /\ stats = [ev.pre.stats EXCEPT !.Hits = @ + 1]
        /\ ev.key \in DOMAIN data
        /\ data[ev.key].value = ev.v

\* C37: the return of a typed accessor that answers ErrTypeMismatch leaves the
\* table and the callback counts as they are and adds one to Hits, no other
\* counter changing; the entry is still stored with the value the lookup read.
C37_MismatchIsHit ==
    [][Mismatched(ev') # {} =>
          /\ data' = data
          /\ cbCount' = cbCount
          /\ stats' = [stats EXCEPT !.Hits = @ + 1]
          /\ ev'.key \in DOMAIN data'
          /\ data'[ev'.key].value = ev'.v]_vars
=============================================================================
